---- MODULE Spec2Model ----
(***************************************************************************)
(* A model of the data-analysis tools of agent_module.py, of the           *)
(* tool-calling graph built by create_agent_executor, and of the script    *)
(* run of app.py.                                                          *)
(*                                                                         *)
(* A CSV file is what pandas makes of it: either a failure of read_csv or  *)
(* a table, a sequence of columns.  A column carries its name, its dtype,  *)
(* its cells, and what the pandas statistics the code asks for return for  *)
(* it: corr (its entry of df.corr() against the sales column, in           *)
(* thousandths), nunique and the per-category mean sales.                  *)
(* A cell or a statistic is <<v>> when present and <<>> when missing (NaN).*)
(* A returned text is a record: msg names the message template, the other  *)
(* fields are the values formatted into it.                                *)
(***************************************************************************)
EXTENDS Integers, Sequences, FiniteSets, TLC

VARIABLES query, disk, png, env, ret, last_tool,
          node, messages,
          dark_mode, uploaded, tmp_files, shown, runs

vars == <<query, disk, png, env, ret, last_tool, node, messages,
          dark_mode, uploaded, tmp_files, shown, runs>>

tool_vars == <<query, disk, png, env, ret, last_tool>>
graph_vars == <<node, messages>>
app_vars == <<dark_mode, uploaded, tmp_files, shown, runs>>

(***************************************************************************)
(* Bounds of the model.                                                    *)
(***************************************************************************)
MaxRows == 4
MaxCols == 3
MaxNumeric == 5
MaxCalls == 2
MaxInitMsgs == 2
MaxRuns == 3

(***************************************************************************)
(* Program constants.                                                      *)
(***************************************************************************)
IqrFactorTimes2 == 3
ExampleRows == 3
CorrThreshold == 300
TopCorrelations == 3
MaxCategories == 50
CategoricalColumns == 2
TopCategories == 3

Missing == <<>>
Val(v) == <<v>>
IsMissing(c) == c = Missing

Last(s) == s[Len(s)]
Min2(a, b) == IF a < b THEN a ELSE b
Abs(x) == IF x < 0 THEN -x ELSE x
head(s, k) == SubSeq(s, 1, Min2(k, Len(s)))

RECURSIVE SeqsUpTo(_, _)
SeqsUpTo(S, n) ==
    IF n = 0 THEN {<<>>}
    ELSE LET shorter == SeqsUpTo(S, n - 1)
         IN  shorter \cup {Append(s, x) : s \in {t \in shorter : Len(t) = n - 1}, x \in S}

(***************************************************************************)
(* Outcomes of a function body: a returned text or a raised exception.     *)
(***************************************************************************)
NoText == [msg |-> "none"]
Return(t) == [raised |-> FALSE, exc |-> "", text |-> t]
Raise(e) == [raised |-> TRUE, exc |-> e, text |-> NoText]
Text(m) == [msg |-> m]

(***************************************************************************)
(* pandas.read_csv(query, encoding): the failure it raises or the table.   *)
(***************************************************************************)
NoFile == [kind |-> "missing", utf8 |-> TRUE, cols |-> <<>>, id |-> 0]

read_csv(d, encoding) ==
    CASE d.kind = "missing"    -> [raised |-> TRUE, exc |-> "FileNotFoundError", df |-> <<>>]
      [] d.kind = "unreadable" -> [raised |-> TRUE, exc |-> "PermissionError", df |-> <<>>]
      [] d.kind = "zero"       -> [raised |-> TRUE, exc |-> "EmptyDataError", df |-> <<>>]
      [] ~d.utf8 /\ encoding = "utf-8"
                               -> [raised |-> TRUE, exc |-> "UnicodeDecodeError", df |-> <<>>]
      [] d.kind = "malformed"  -> [raised |-> TRUE, exc |-> "ParserError", df |-> <<>>]
      [] OTHER                 -> [raised |-> FALSE, exc |-> "", df |-> d.cols]

\* len(df): every column of a table has the same number of cells
len_df(df) == IF df = <<>> THEN 0 ELSE Len(df[1].vals)
\* df.empty
df_empty(df) == df = <<>> \/ len_df(df) = 0
columns(df) == [i \in DOMAIN df |-> df[i].name]

\* not query or not isinstance(query, str): "" stands for every such value
invalid_query(q) == q = ""

(***************************************************************************)
(* Column-name tests: 'sales' in col.lower(), and 'year' in col.lower()    *)
(* and 'establish' in col.lower(), over the column names of the model.     *)
(***************************************************************************)
SalesNames == {"Item_Outlet_Sales", "Sales_Rep", "SALES_2"}
YearNames == {"Outlet_Establishment_Year", "year_established"}
NumericNames == <<"Item_MRP", "Item_Weight", "Item_Visibility", "Store_Area", "Year", "Shelf">>
TextNames == <<"Outlet_Type", "Item_Type", "Item_Identifier", "Outlet_Size", "City">>
has_sales(name) == name \in SalesNames
has_year_establish(name) == name \in YearNames

(***************************************************************************)
(* load_csv                                                                *)
(***************************************************************************)
load_csv_try(q, d) ==
    IF invalid_query(q) THEN Return(Text("bad_path"))
    ELSE LET r == read_csv(d, "utf-8") IN
         IF r.raised THEN Raise(r.exc)
         ELSE IF df_empty(r.df) THEN Return(Text("file_empty"))
         ELSE Return([msg |-> "loaded", num_rows |-> len_df(r.df),
                      num_cols |-> Len(r.df), columns |-> columns(r.df)])

\* the handler of UnicodeDecodeError: a second read, as latin1
load_csv_latin1(d) ==
    LET r == read_csv(d, "latin1") IN
    IF r.raised THEN Return([msg |-> "encoding_error", exc |-> r.exc])
    ELSE Return([msg |-> "loaded_latin1", num_rows |-> len_df(r.df),
                 num_cols |-> Len(r.df), columns |-> columns(r.df)])

load_csv_except(o, d) ==
    IF ~o.raised THEN o
    ELSE CASE o.exc = "FileNotFoundError"  -> Return(Text("file_not_found"))
           [] o.exc = "EmptyDataError"     -> Return(Text("file_empty_or_header_only"))
           [] o.exc = "UnicodeDecodeError" -> load_csv_latin1(d)
           [] OTHER                        -> Return([msg |-> "unknown_load_error", exc |-> o.exc])

load_csv(q, d) == load_csv_except(load_csv_try(q, d), d)

(***************************************************************************)
(* describe_data                                                           *)
(***************************************************************************)
select_dtypes(df, dtype) == SelectSeq(df, LAMBDA c : c.dtype = dtype)

\* df.describe(): the numeric columns, or every column when none is numeric
describe(df) ==
    IF select_dtypes(df, "num") # <<>> THEN columns(select_dtypes(df, "num"))
    ELSE columns(df)

describe_data_try(q, d) ==
    IF invalid_query(q) THEN Return(Text("bad_path"))
    ELSE LET r == read_csv(d, "utf-8") IN
         IF r.raised THEN Raise(r.exc)
         ELSE IF df_empty(r.df) THEN Return(Text("file_empty"))
         ELSE LET stats == describe(r.df) IN
              IF stats = <<>> THEN Return(Text("no_numeric_columns"))
              ELSE Return([msg |-> "stats", columns |-> stats])

tool_except_fnf_only(o, what) ==
    IF o.raised /\ o.exc = "FileNotFoundError" THEN Return(Text("file_not_found")) ELSE o

\* except FileNotFoundError / except Exception: shared by the four later tools
tool_except(o, what) ==
    IF ~o.raised THEN o
    ELSE IF o.exc = "FileNotFoundError" THEN Return(Text("file_not_found"))
    ELSE Return([msg |-> what, exc |-> o.exc])

describe_data(q, d) == tool_except(describe_data_try(q, d), "describe_error")

\* try: pd.read_csv(query) except UnicodeDecodeError: pd.read_csv(query, encoding='latin1')
read_with_fallback(d) ==
    LET r == read_csv(d, "utf-8") IN
    IF r.raised /\ r.exc = "UnicodeDecodeError" THEN read_csv(d, "latin1") ELSE r


(***************************************************************************)
(* find_outliers                                                           *)
(***************************************************************************)
\* the loop over df.columns that stops at the first name containing 'sales':
\* the position of the column, 0 when there is none
RECURSIVE first_match(_, _)
first_match(df, i) ==
    IF i > Len(df) THEN 0
    ELSE IF has_sales(df[i].name) THEN i
    ELSE first_match(df, i + 1)

find_sales_col(df) == first_match(df, 1)

\* df.dropna(subset=[sales_col]): the rows left, each with its index label
dropna(vals) ==
    LET rows == [i \in DOMAIN vals |-> [idx |-> i - 1, cell |-> vals[i]]]
        kept == SelectSeq(rows, LAMBDA r : ~IsMissing(r.cell))
    IN  [i \in DOMAIN kept |-> [idx |-> kept[i].idx, v |-> kept[i].cell[1]]]

RECURSIVE insert_sorted(_, _)
insert_sorted(s, x) ==
    IF s = <<>> THEN <<x>>
    ELSE IF x < Head(s) THEN <<x>> \o s
    ELSE <<Head(s)>> \o insert_sorted(Tail(s), x)

RECURSIVE sort_values(_)
sort_values(s) ==
    IF s = <<>> THEN <<>> ELSE insert_sorted(sort_values(SubSeq(s, 1, Len(s) - 1)), Last(s))

\* np.percentile(values, p), linear interpolation, for p = 25 and p = 75:
\* four times the percentile, an integer for integer values
percentile4(values, p) ==
    LET s == sort_values(values)
        h == (Len(s) - 1) * p
        lo == (h \div 100) + 1
        quarters == (h % 100) \div 25
    IN  IF quarters = 0 THEN 4 * s[lo]
        ELSE 4 * s[lo] + quarters * (s[lo + 1] - s[lo])

\* lower_bound and upper_bound, in eighths
lower_bound8(values) ==
    LET q1 == percentile4(values, 25)
        q3 == percentile4(values, 75)
        iqr == q3 - q1
    IN  2 * q1 - IqrFactorTimes2 * iqr

upper_bound8(values) ==
    LET q1 == percentile4(values, 25)
        q3 == percentile4(values, 75)
        iqr == q3 - q1
    IN  2 * q3 + IqrFactorTimes2 * iqr

is_outlier_le(v, lo8, hi8) == 8 * v <= lo8 \/ 8 * v >= hi8

\* (df_clean[sales_col] < lower_bound) | (df_clean[sales_col] > upper_bound)
is_outlier(v, lo8, hi8) == 8 * v < lo8 \/ 8 * v > hi8

\* f"{x:.2f}" of a value given in eighths: hundredths, halves rounded to even
fmt2_eighths(x8) ==
    LET twice == x8 * 25
        down == twice \div 2
    IN  IF twice % 2 = 0 THEN down
        ELSE IF down % 2 = 0 THEN down ELSE down + 1

\* f"{x:.2f}" of an integer value: hundredths
fmt2(v) == 100 * v

example_lines(rows) == [i \in DOMAIN rows |-> [idx |-> rows[i].idx, value |-> fmt2(rows[i].v)]]

outliers_report_all(outliers, lo8, hi8) ==
    [msg |-> "outliers_found", count |-> Len(outliers),
     lower |-> fmt2_eighths(lo8), upper |-> fmt2_eighths(hi8),
     examples |-> example_lines(outliers),
     interpretation |-> "business_interpretation", to_check |-> Len(outliers)]

outliers_report(outliers, lo8, hi8) ==
    [msg |-> "outliers_found", count |-> Len(outliers),
     lower |-> fmt2_eighths(lo8), upper |-> fmt2_eighths(hi8),
     examples |-> example_lines(head(outliers, ExampleRows)),
     interpretation |-> "business_interpretation", to_check |-> Len(outliers)]

sales_values_of(df_clean) == [i \in DOMAIN df_clean |-> df_clean[i].v]

\* outliers = df_clean[(... < lower_bound) | (... > upper_bound)]
flag_outliers(df_clean) ==
    LET lo8 == lower_bound8(sales_values_of(df_clean))
        hi8 == upper_bound8(sales_values_of(df_clean))
    IN  SelectSeq(df_clean, LAMBDA row : is_outlier(row.v, lo8, hi8))

find_outliers_try(q, d) ==
    IF invalid_query(q) THEN Return(Text("bad_path"))
    ELSE LET r == read_with_fallback(d) IN
    IF r.raised THEN Raise(r.exc)
    ELSE IF df_empty(r.df) THEN Return(Text("file_empty"))
    ELSE LET sales_col == find_sales_col(r.df) IN
    IF sales_col = 0 THEN Return([msg |-> "no_sales_column", columns |-> columns(r.df)])
    ELSE LET df_clean == dropna(r.df[sales_col].vals) IN
    IF df_clean = <<>> THEN Return(Text("all_sales_missing"))
    ELSE IF r.df[sales_col].dtype # "num" THEN Raise("TypeError")
    ELSE LET sales_values == sales_values_of(df_clean)
             lo8 == lower_bound8(sales_values)
             hi8 == upper_bound8(sales_values)
             outliers == flag_outliers(df_clean)
         IN  IF Len(outliers) = 0
             THEN Return([msg |-> "no_outliers", lower |-> fmt2_eighths(lo8),
                          upper |-> fmt2_eighths(hi8)])
             ELSE Return(outliers_report(outliers, lo8, hi8))

find_outliers(q, d) == tool_except(find_outliers_try(q, d), "outliers_error")


(***************************************************************************)
(* correlation_analysis                                                    *)
(***************************************************************************)
\* abs(corr_value) > 0.3; a comparison with NaN is false
is_strong_ge(c) == ~IsMissing(c.corr) /\ Abs(c.corr[1]) >= CorrThreshold

is_strong(c) == ~IsMissing(c.corr) /\ Abs(c.corr[1]) > CorrThreshold

\* correlations.sort(key=lambda x: abs(x[1]), reverse=True): stable
RECURSIVE insert_by_abs(_, _)
insert_by_abs(s, x) ==
    IF s = <<>> THEN <<x>>
    ELSE IF Abs(x.corr[1]) > Abs(Head(s).corr[1]) THEN <<x>> \o s
    ELSE <<Head(s)>> \o insert_by_abs(Tail(s), x)

RECURSIVE sort_by_abs(_)
sort_by_abs(s) ==
    IF s = <<>> THEN <<>> ELSE insert_by_abs(sort_by_abs(SubSeq(s, 1, Len(s) - 1)), Last(s))

\* f"{corr:.2f}" of a value in thousandths: hundredths, to the nearest
fmt2_thousandths(x) == (x + 5) \div 10

corr_line(c) ==
    [col |-> c.name, corr |-> fmt2_thousandths(c.corr[1]),
     direction |-> IF c.corr[1] > 0 THEN "positive" ELSE "negative"]

numeric_report_of(numeric_cols) ==
    LET correlations == sort_by_abs(SelectSeq(numeric_cols, is_strong)) IN
    IF correlations # <<>>
    THEN [msg |-> "top3", lines |-> [i \in DOMAIN head(correlations, TopCorrelations) |->
                                        corr_line(correlations[i])]]
    ELSE Text("no_strong_correlation")

\* grouped.sort_values(ascending=False): descending, missing means last
RECURSIVE insert_desc(_, _)
insert_desc(s, x) ==
    IF s = <<>> THEN <<x>>
    ELSE IF x.mean[1] > Head(s).mean[1] THEN <<x>> \o s
    ELSE <<Head(s)>> \o insert_desc(Tail(s), x)

RECURSIVE sort_desc(_)
sort_desc(s) ==
    IF s = <<>> THEN <<>> ELSE insert_desc(sort_desc(SubSeq(s, 1, Len(s) - 1)), Last(s))

\* df.groupby(col)[sales_col].mean(): one entry per category, in key order
groupby_mean(c) == [k \in DOMAIN c.means |-> [cat |-> k, mean |-> c.means[k]]]

sort_values_desc(grouped) ==
    sort_desc(SelectSeq(grouped, LAMBDA g : ~IsMissing(g.mean)))
        \o SelectSeq(grouped, LAMBDA g : IsMissing(g.mean))

category_line(g) ==
    [cat |-> g.cat, avg_sales |-> IF IsMissing(g.mean) THEN Missing ELSE Val(fmt2(g.mean[1]))]

cat_analysis(c) ==
    LET grouped == sort_values_desc(groupby_mean(c))
        top_categories == head(grouped, TopCategories)
    IN  [col |-> c.name,
         lines |-> [i \in DOMAIN top_categories |-> category_line(top_categories[i])]]

\* df[col].nunique() <= 50
few_categories(c) == c.nunique <= MaxCategories

categorical_first_two(df) == SelectSeq(head(select_dtypes(df, "text"), CategoricalColumns), few_categories)

\* the text columns with at most 50 distinct values, then [:2]
categorical_cols_of(df) == head(SelectSeq(select_dtypes(df, "text"), few_categories), CategoricalColumns)

correlation_analysis_try(q, d) ==
    IF invalid_query(q) THEN Return(Text("bad_path"))
    ELSE LET r == read_with_fallback(d) IN
    IF r.raised THEN Raise(r.exc)
    ELSE IF df_empty(r.df) THEN Return(Text("file_empty"))
    ELSE LET sales_col == find_sales_col(r.df) IN
    IF sales_col = 0 THEN Return([msg |-> "no_sales_column", columns |-> columns(r.df)])
    ELSE LET df == r.df
             sales_name == df[sales_col].name
             sales_numeric == df[sales_col].dtype = "num"
             numeric_cols == SelectSeq(select_dtypes(df, "num"), LAMBDA c : c.name # sales_name)
             categorical_cols == categorical_cols_of(df)
         IN  \* df[numeric_cols + [sales_col]].corr() with a text sales column
             IF numeric_cols # <<>> /\ ~sales_numeric THEN Raise("ValueError")
             \* groupby(col)[sales_col].mean() with a text sales column
             ELSE IF categorical_cols # <<>> /\ ~sales_numeric THEN Raise("TypeError")
             ELSE Return(
                [msg |-> "correlation_report",
                 numeric_report |->
                    IF numeric_cols = <<>> THEN Text("no_numeric_columns")
                    ELSE numeric_report_of(numeric_cols),
                 categorical_report |->
                    IF categorical_cols = <<>> THEN Text("no_categorical_columns")
                    ELSE [msg |-> "categories",
                          cols |-> [i \in DOMAIN categorical_cols |-> cat_analysis(categorical_cols[i])]],
                 interpretation |-> "business_interpretation"])

correlation_analysis(q, d) == tool_except(correlation_analysis_try(q, d), "correlation_error")


(***************************************************************************)
(* plot_trend                                                              *)
(***************************************************************************)
\* the loop over df.columns that does not stop: the last matching column wins
RECURSIVE last_match(_, _)
last_match(matches, i) ==
    IF i = 0 THEN 0
    ELSE IF matches[i] THEN i
    ELSE last_match(matches, i - 1)

plot_year_col(df) == last_match([i \in DOMAIN df |-> has_year_establish(df[i].name)], Len(df))
plot_sales_col(df) == last_match([i \in DOMAIN df |-> has_sales(df[i].name)], Len(df))

\* df.groupby(year_col)[sales_col].sum().sort_index(): its index, the distinct
\* years present, ascending (rows with a missing year form no group)
RECURSIVE set_to_sorted(_)
set_to_sorted(S) ==
    IF S = {} THEN <<>>
    ELSE LET m == CHOOSE x \in S : \A y \in S : x <= y
         IN  <<m>> \o set_to_sorted(S \ {m})

sales_by_year_index(year_vals) ==
    set_to_sorted({year_vals[i][1] : i \in {j \in DOMAIN year_vals : ~IsMissing(year_vals[j])}})

NoPng == <<>>
Png(id) == <<id>>

save_chart_partial(years, nrows, e) ==
    CASE e = "render_error" -> [out |-> Raise("ValueError"), saved |-> FALSE]
      [] e = "save_error"   -> [out |-> Raise("PermissionError"), saved |-> TRUE]
      [] OTHER -> [out |-> Return([msg |-> "chart_saved", year_min |-> Head(years),
                                   year_max |-> Last(years), records |-> nrows]),
                   saved |-> TRUE]

\* plt.figure ... plt.savefig('sales_trend.png') ... return: a plotting call may
\* raise before the file is written; the file is written by savefig alone
save_chart(years, nrows, e) ==
    CASE e = "render_error" -> [out |-> Raise("ValueError"), saved |-> FALSE]
      [] e = "save_error"   -> [out |-> Raise("PermissionError"), saved |-> FALSE]
      [] OTHER -> [out |-> Return([msg |-> "chart_saved", year_min |-> Head(years),
                                   year_max |-> Last(years), records |-> nrows]),
                   saved |-> TRUE]

NotSaved(o) == [out |-> o, saved |-> FALSE]

plot_trend_try(q, d, e) ==
    IF invalid_query(q) THEN NotSaved(Return(Text("bad_path")))
    ELSE LET r == read_with_fallback(d) IN
    IF r.raised THEN NotSaved(Raise(r.exc))
    ELSE IF df_empty(r.df) THEN NotSaved(Return(Text("file_empty")))
    ELSE LET df == r.df
             year_col == plot_year_col(df)
             sales_col == plot_sales_col(df)
         IN
    IF year_col = 0 THEN NotSaved(Return([msg |-> "no_year_column", columns |-> columns(df)]))
    ELSE IF sales_col = 0 THEN NotSaved(Return([msg |-> "no_sales_column", columns |-> columns(df)]))
    ELSE LET sales_by_year == sales_by_year_index(df[year_col].vals) IN
    IF sales_by_year = <<>> THEN NotSaved(Return(Text("no_data_after_grouping")))
    ELSE save_chart(sales_by_year, len_df(df), e)

\* the text returned, and sales_trend.png afterwards
plot_trend(q, d, e, old_png) ==
    LET t == plot_trend_try(q, d, e) IN
    [out |-> tool_except(t.out, "plot_error"),
     png |-> IF t.saved THEN Png(d.id) ELSE old_png]


(***************************************************************************)
(* The files and tables the tools are called with.                         *)
(***************************************************************************)
Cells(n, f(_)) == [i \in 1..n |-> f(i)]
AllMissing(n) == [i \in 1..n |-> Missing]

NumCol(name, vals, corr) ==
    [name |-> name, dtype |-> "num", vals |-> vals,
     corr |-> corr, nunique |-> 0, means |-> <<>>]
TextCol(name, vals, means) ==
    [name |-> name, dtype |-> "text", vals |-> vals,
     corr |-> Missing, nunique |-> Len(means), means |-> means]

DistinctNames(df) == \A i, j \in DOMAIN df : i # j => df[i].name # df[j].name
Tables(templates, n) == {df \in SeqsUpTo(templates, n) : df # <<>> /\ DistinctNames(df)}

FileOf(kind, utf8, cols) == [kind |-> kind, utf8 |-> utf8, cols |-> cols, id |-> 1]
BadFiles ==
    {NoFile, FileOf("unreadable", TRUE, <<>>), FileOf("zero", TRUE, <<>>),
     FileOf("malformed", TRUE, <<>>), FileOf("malformed", FALSE, <<>>)}
TableFiles(tables) == {FileOf("table", u, df) : u \in BOOLEAN, df \in tables}

\* columns of n rows for the calls of all five tools
ToolTemplates(n) ==
    {NumCol("Item_Outlet_Sales", Cells(n, LAMBDA i : Val(10 * i)), Missing),
     TextCol("Sales_Rep", Cells(n, LAMBDA i : Val(i)), <<Val(5), Val(7)>>),
     NumCol("Outlet_Establishment_Year", Cells(n, LAMBDA i : Val(1985 + i)), Val(-450)),
     NumCol("year_established", AllMissing(n), Missing),
     NumCol("Item_MRP", Cells(n, LAMBDA i : Val(i)), Val(570)),
     TextCol("Outlet_Type", Cells(n, LAMBDA i : Val(1)), <<Val(3)>>)}

ToolRows == {0, 2}
ToolFiles == BadFiles \cup TableFiles(UNION {Tables(ToolTemplates(n), MaxCols) : n \in ToolRows})

NoCall == Return(NoText)
PlotEnvs == {"ok", "render_error", "save_error"}

GraphIdle == node = "idle" /\ messages = <<>>
AppIdle ==
    /\ dark_mode = FALSE /\ uploaded = NoFile /\ tmp_files = {}
    /\ shown = [page |-> "welcome"] /\ runs = 0

Init ==
    /\ query \in {"", "data.csv"}
    /\ disk \in ToolFiles
    /\ png \in {NoPng, Png(0)}
    /\ env \in PlotEnvs
    /\ ret = NoCall
    /\ last_tool = "none"
    /\ GraphIdle
    /\ AppIdle

(***************************************************************************)
(* One action per tool: the call, with the path and the file as they are.  *)
(***************************************************************************)
Called(name, out) ==
    /\ ret' = out
    /\ last_tool' = name
    /\ UNCHANGED <<query, disk, env, graph_vars, app_vars>>

CallLoadCsv == Called("load_csv", load_csv(query, disk)) /\ png' = png
CallDescribeData == Called("describe_data", describe_data(query, disk)) /\ png' = png
CallFindOutliers == Called("find_outliers", find_outliers(query, disk)) /\ png' = png
CallCorrelationAnalysis ==
    Called("correlation_analysis", correlation_analysis(query, disk)) /\ png' = png
CallPlotTrend ==
    LET p == plot_trend(query, disk, env, png) IN
    Called("plot_trend", p.out) /\ png' = p.png

Next ==
    \/ CallLoadCsv
    \/ CallDescribeData
    \/ CallPlotTrend
    \/ CallFindOutliers
    \/ CallCorrelationAnalysis

Spec == Init /\ [][Next]_vars


(***************************************************************************)
(* The tools return text and raise nothing; load_csv; the image file.      *)
(***************************************************************************)
LoadedMsgs == {"loaded", "loaded_latin1"}

\* C5: after a call of any of the five tools, on any path and any file, the
\* call has returned a text and raised no exception to its caller
C5_ToolsReturnText ==
    /\ ~ret.raised
    /\ last_tool # "none" => ret.text.msg # "none"

\* a failure of a library call inside a handler, turned into a message
C5_Witness ==
    /\ last_tool = "load_csv"
    /\ ~ret.raised
    /\ ret.text.msg = "encoding_error"

NoDataRows(d) == d.kind = "zero" \/ (d.kind = "table" /\ len_df(d.cols) = 0)

\* C6: load_csv returns an error message, never a report of loaded rows, when
\* the path is empty, the file is missing or the file holds no data rows,
\* whichever encoding the file is read with
C6_LoadCsvErrors ==
    (last_tool = "load_csv"
        /\ (invalid_query(query) \/ disk.kind = "missing" \/ NoDataRows(disk)))
    => ret.text.msg \notin LoadedMsgs

NoColumnNamed(d, names) == \A i \in DOMAIN d.cols : d.cols[i].name \notin names

\* C9: a call of plot_trend leaves sales_trend.png holding the chart of the
\* file when it returns its success message and leaves the image file as it
\* was (absent, or the earlier image) when it returns an error; with neither a
\* year-established column nor a sales column the error names the year column
C9_PngWrittenIffSuccess ==
    [][last_tool' = "plot_trend" =>
        /\ ret'.text.msg = "chart_saved" => png' = Png(disk.id)
        /\ ret'.text.msg # "chart_saved" => png' = png
        /\ (/\ ~invalid_query(query) /\ disk.kind = "table" /\ len_df(disk.cols) > 0
            /\ NoColumnNamed(disk, YearNames) /\ NoColumnNamed(disk, SalesNames))
           => ret'.text.msg = "no_year_column"]_vars

\* an error of plot_trend with an earlier image on disk, both columns missing
C9_Witness ==
    /\ last_tool = "plot_trend"
    /\ ret.text.msg = "no_year_column"
    /\ NoColumnNamed(disk, SalesNames)
    /\ png = Png(0)


(***************************************************************************)
(* find_outliers on tables whose sales cells vary.                         *)
(***************************************************************************)
OutlierCells == {Missing, Val(0), Val(1), Val(10)}
Padding == {<<>>, <<Val(4), Val(4), Val(4), Val(4), Val(6), Val(6), Val(6), Val(6)>>}
SalesCells == {varied \o pad : varied \in SeqsUpTo(OutlierCells, MaxRows), pad \in Padding}

OutlierLayout(k, vals) ==
    LET n == Len(vals)
        sales == NumCol("Item_Outlet_Sales", vals, Missing)
    IN  CASE k = 1 -> <<sales>>
          [] k = 2 -> <<NumCol("Item_MRP", Cells(n, LAMBDA i : Val(100)), Val(570)), sales>>
          [] k = 3 -> <<sales, NumCol("SALES_2", Cells(n, LAMBDA i : Val(i)), Missing)>>
          [] OTHER -> <<TextCol("Sales_Rep", vals, <<Val(5)>>), sales>>

OutlierFiles == {FileOf("table", TRUE, OutlierLayout(k, v)) : k \in 1..4, v \in SalesCells}

InitOutliers ==
    /\ query = "data.csv"
    /\ disk \in OutlierFiles
    /\ png = NoPng
    /\ env = "ok"
    /\ ret = NoCall
    /\ last_tool = "none"
    /\ GraphIdle
    /\ AppIdle

SpecOutliers == InitOutliers /\ [][CallFindOutliers]_vars

\* the detected sales column of the file: the first whose name contains 'sales'
SalesIdx(d) ==
    IF NoColumnNamed(d, SalesNames) THEN 0
    ELSE CHOOSE i \in DOMAIN d.cols :
            /\ d.cols[i].name \in SalesNames
            /\ \A j \in 1..(i - 1) : d.cols[j].name \notin SalesNames
SalesVals(d) == d.cols[SalesIdx(d)].vals
Present(vals) == {i \in DOMAIN vals : vals[i] # Missing}
PresentValues(vals) ==
    LET kept == SelectSeq(vals, LAMBDA c : c # Missing) IN [i \in DOMAIN kept |-> kept[i][1]]
Q1x4(vals) == percentile4(PresentValues(vals), 25)
Q3x4(vals) == percentile4(PresentValues(vals), 75)
\* the index labels (from 0) of the rows the interquartile rule flags:
\* v < Q1 - 1.5 (Q3 - Q1) or v > Q3 + 1.5 (Q3 - Q1), times eight
Expected(vals) ==
    LET q1 == Q1x4(vals)
        q3 == Q3x4(vals)
        outside == {j \in Present(vals) :
                       \/ 8 * vals[j][1] < 5 * q1 - 3 * q3
                       \/ 8 * vals[j][1] > 5 * q3 - 3 * q1}
    IN  {i - 1 : i \in outside}
Analysable(d) ==
    /\ d.kind = "table" /\ len_df(d.cols) > 0
    /\ SalesIdx(d) # 0
    /\ d.cols[SalesIdx(d)].dtype = "num"
    /\ Present(SalesVals(d)) # {}
Flagged(d) == flag_outliers(dropna(SalesVals(d)))
ReportedCount(t) == IF t.msg = "outliers_found" THEN t.count ELSE 0

\* C1: after find_outliers on a table whose detected (numeric) sales column
\* has a non-missing value, the rows flagged are exactly those whose sales
\* value is strictly below Q1 - 1.5 IQR or strictly above Q3 + 1.5 IQR of the
\* non-missing sales values, no row with a missing value is among them, and the
\* count reported is the number of flagged rows
C1_IqrRule ==
    (last_tool = "find_outliers" /\ Analysable(disk)) =>
        /\ {Flagged(disk)[i].idx : i \in DOMAIN Flagged(disk)} = Expected(SalesVals(disk))
        /\ Len(Flagged(disk)) = Cardinality(Expected(SalesVals(disk)))
        /\ ret.text.msg \in {"no_outliers", "outliers_found"}
        /\ ReportedCount(ret.text) = Cardinality(Expected(SalesVals(disk)))

\* a flagged row, a row with a missing value and a row on the lower bound
C1_Witness ==
    /\ last_tool = "find_outliers" /\ Analysable(disk)
    /\ ret.text.msg = "outliers_found"
    /\ \E i \in DOMAIN SalesVals(disk) : SalesVals(disk)[i] = Missing
    /\ Q3x4(SalesVals(disk)) > Q1x4(SalesVals(disk))
    /\ \E i \in Present(SalesVals(disk)) :
          8 * SalesVals(disk)[i][1] = 5 * Q1x4(SalesVals(disk)) - 3 * Q3x4(SalesVals(disk))

Completed == last_tool = "find_outliers" /\ ret.text.msg \in {"no_outliers", "outliers_found"}
RECURSIVE FirstOf(_, _)
\* the k smallest members of a set of numbers, ascending
FirstOf(S, k) ==
    IF S = {} \/ k = 0 THEN <<>>
    ELSE LET m == CHOOSE x \in S : \A y \in S : x <= y
         IN  <<m>> \o FirstOf(S \ {m}, k - 1)
ExpectedExamples(vals) ==
    LET first == FirstOf(Expected(vals), ExampleRows)
    IN  [i \in DOMAIN first |-> [idx |-> first[i], value |-> 100 * vals[first[i] + 1][1]]]
CountExamplesInterpretation ==
    /\ ret.text.msg = "outliers_found"
    /\ ret.text.count = Cardinality(Expected(SalesVals(disk)))
    /\ ret.text.examples = ExpectedExamples(SalesVals(disk))
    /\ ret.text.interpretation = "business_interpretation"

CorrSamples == {Missing, Val(-300), Val(301), Val(-650)}
CorrRows == 3
NumericPart(n) ==
    {[i \in 1..Len(cs) |-> NumCol(NumericNames[i], Cells(n, LAMBDA k : Val(k)), cs[i])] :
        cs \in SeqsUpTo(CorrSamples, MaxNumeric)}

TextSamples ==
    {<<2, "rising">>, <<4, "mixed">>, <<MaxCategories, "mixed">>, <<MaxCategories + 1, "rising">>}
MeansOf(n, pattern) ==
    [k \in 1..n |-> IF pattern = "rising" THEN Val(k)
                    ELSE IF k = 2 THEN Missing ELSE Val((7 * k) % 5)]
TextRows == MaxCategories + 1
TextPart ==
    {[i \in 1..Len(ts) |->
        TextCol(TextNames[i], Cells(TextRows, LAMBDA k : Val((k % ts[i][1]) + 1)),
                MeansOf(ts[i][1], ts[i][2]))] :
        ts \in SeqsUpTo(TextSamples, MaxCols)}

SalesCol(n) == NumCol("Item_Outlet_Sales", Cells(n, LAMBDA k : Val(10 * k)), Missing)
TextSalesCol(n) == TextCol("Sales_Rep", Cells(n, LAMBDA k : Val(k)), <<Val(5), Val(7)>>)
OneTextCol(n) == TextCol("Outlet_Type", Cells(n, LAMBDA k : Val(1)), <<Val(3)>>)

NumericLayout(k, part) ==
    CASE k = 1 -> <<SalesCol(CorrRows)>> \o part
      [] k = 2 -> part \o <<SalesCol(CorrRows)>>
      [] k = 3 -> part \o <<SalesCol(CorrRows), OneTextCol(CorrRows)>>
      [] OTHER -> part \o <<TextSalesCol(CorrRows), SalesCol(CorrRows)>>
TextLayout(k, part) ==
    CASE k = 1 -> <<SalesCol(TextRows)>> \o part
      [] k = 2 -> part \o <<SalesCol(TextRows)>>
      [] OTHER -> <<NumCol("Item_MRP", Cells(TextRows, LAMBDA i : Val(i)), Val(570))>> \o part
                    \o <<SalesCol(TextRows)>>
CorrTables ==
    {NumericLayout(k, part) : k \in 1..4, part \in NumericPart(CorrRows)}
        \cup {TextLayout(k, part) : k \in 1..3, part \in TextPart}

CorrFiles == {FileOf("table", TRUE, df) : df \in CorrTables}

InitCorr ==
    /\ query = "data.csv"
    /\ disk \in CorrFiles
    /\ png = NoPng
    /\ env = "ok"
    /\ ret = NoCall
    /\ last_tool = "none"
    /\ GraphIdle
    /\ AppIdle

SpecCorr == InitCorr /\ [][CallCorrelationAnalysis]_vars


Reportable(d) ==
    /\ d.kind = "table" /\ len_df(d.cols) > 0
    /\ SalesIdx(d) # 0
    /\ d.cols[SalesIdx(d)].dtype = "num"
ColIdx(d, name) == CHOOSE i \in DOMAIN d.cols : d.cols[i].name = name
\* the numeric columns other than the sales column, and those with |r| > 0.3
Others(d) == {i \in DOMAIN d.cols : d.cols[i].dtype = "num" /\ i # SalesIdx(d)}
Qualifying(d) ==
    {i \in Others(d) : d.cols[i].corr # Missing /\ Abs(d.cols[i].corr[1]) * 10 > 3 * 1000}
AbsR(d, i) == Abs(d.cols[i].corr[1])
CorrLines(t) == IF t.numeric_report.msg = "top3" THEN t.numeric_report.lines ELSE <<>>
ListedCorrelations(d, t) ==
    LET lines == CorrLines(t)
        at(k) == ColIdx(d, lines[k].col)
    IN  /\ Len(lines) = Min2(3, Cardinality(Qualifying(d)))
        /\ \A k \in DOMAIN lines : at(k) \in Qualifying(d)
        /\ \A k, l \in DOMAIN lines : k < l => at(k) # at(l) /\ AbsR(d, at(k)) >= AbsR(d, at(l))
        /\ \A i \in Qualifying(d) :
              (\A k \in DOMAIN lines : at(k) # i) =>
                  \A k \in DOMAIN lines : AbsR(d, i) <= AbsR(d, at(k))
AfterCorrelation == last_tool = "correlation_analysis" /\ Reportable(disk)

\* C3 as claimed: the correlations listed are the numeric columns other than
\* sales with |r| > 0.3, in descending order of |r|, cut to the three largest,
\* and when none qualifies the report says no strong correlation was found
C3_Original ==
    AfterCorrelation =>
        /\ ret.text.msg = "correlation_report"
        /\ ListedCorrelations(disk, ret.text)
        /\ Qualifying(disk) = {} => ret.text.numeric_report.msg = "no_strong_correlation"

\* C3 amended: the correlations listed are the numeric columns other than
\* sales with |r| > 0.3, in descending order of |r|, cut to the three largest;
\* a column with |r| <= 0.3 or an undefined correlation is never listed; when
\* there are such columns and none qualifies the report says no strong
\* correlation was found, and when the table has no numeric column other than
\* sales it says that no numeric variable was found
C3_TopCorrelations ==
    AfterCorrelation =>
        /\ ret.text.msg = "correlation_report"
        /\ ListedCorrelations(disk, ret.text)
        /\ Qualifying(disk) = {} =>
              ret.text.numeric_report.msg =
                  IF Others(disk) = {} THEN "no_numeric_columns" ELSE "no_strong_correlation"

\* four qualifying columns, not in order of |r|, and one that does not qualify
C3_Witness ==
    /\ AfterCorrelation
    /\ Cardinality(Qualifying(disk)) > 3
    /\ Len(CorrLines(ret.text)) = 3
    /\ Others(disk) # Qualifying(disk)
    /\ \E i, j \in Qualifying(disk) : i < j /\ AbsR(disk, i) < AbsR(disk, j)

\* the text columns with at most 50 distinct values
FewValued(d) == {i \in DOMAIN d.cols : d.cols[i].dtype = "text" /\ d.cols[i].nunique < 51}
CategoryCols(t) == IF t.categorical_report.msg = "categories" THEN t.categorical_report.cols ELSE <<>>
CategoryLines(c, lines) ==
    /\ Len(lines) <= 3
    /\ \A k \in DOMAIN lines :
          /\ lines[k].cat \in DOMAIN c.means
          /\ lines[k].avg_sales =
                IF c.means[lines[k].cat] = Missing THEN Missing
                ELSE Val(100 * c.means[lines[k].cat][1])
    /\ \A k, l \in DOMAIN lines :
          k < l => /\ lines[k].cat # lines[l].cat
                   /\ lines[k].avg_sales = Missing => lines[l].avg_sales = Missing
                   /\ (lines[k].avg_sales # Missing /\ lines[l].avg_sales # Missing)
                         => lines[k].avg_sales[1] >= lines[l].avg_sales[1]

\* C4: after correlation_analysis on a table with a detected (numeric) sales
\* column, the columns whose mean sales by category are reported are exactly
\* the first two text columns, in column order, with at most 50 distinct
\* values (so at most two, a column with more than 50 taking no slot), and for
\* each at most three categories are listed, in descending order of mean sales
C4_CategoricalColumns ==
    AfterCorrelation =>
        LET reported == CategoryCols(ret.text) IN
        /\ ret.text.msg = "correlation_report"
        /\ Len(reported) <= 2
        /\ [k \in DOMAIN reported |-> ColIdx(disk, reported[k].col)] = FirstOf(FewValued(disk), 2)
        /\ \A k \in DOMAIN reported :
              /\ disk.cols[ColIdx(disk, reported[k].col)].nunique <= 50
              /\ CategoryLines(disk.cols[ColIdx(disk, reported[k].col)], reported[k].lines)

\* a text column with more than 50 distinct values ahead of the two reported,
\* and a reported column with more than three categories
C4_Witness ==
    /\ AfterCorrelation
    /\ Len(CategoryCols(ret.text)) = 2
    /\ \E i \in DOMAIN disk.cols :
          /\ disk.cols[i].dtype = "text" /\ disk.cols[i].nunique > 50
          /\ i < ColIdx(disk, CategoryCols(ret.text)[1].col)
    /\ \E k \in 1..2 :
          /\ disk.cols[ColIdx(disk, CategoryCols(ret.text)[k].col)].nunique > 3
          /\ Len(CategoryCols(ret.text)[k].lines) = 3


(***************************************************************************)
(* The graph built by create_agent_executor.                               *)
(* A message is its type and, for an AI message, the number of tool calls  *)
(* it carries; only an AI message has the attribute tool_calls.            *)
(***************************************************************************)
Human == [type |-> "human", tool_calls |-> 0]
Ai(k) == [type |-> "ai", tool_calls |-> k]
ToolMessage == [type |-> "tool", tool_calls |-> 0]

has_tool_calls(m) == m.type = "ai" /\ m.tool_calls > 0

should_continue_any(msgs) ==
    IF \E i \in DOMAIN msgs : has_tool_calls(msgs[i]) THEN "tools" ELSE "__end__"

\* hasattr(last, "tool_calls") and len(last.tool_calls) > 0
should_continue(msgs) ==
    IF has_tool_calls(Last(msgs)) THEN "tools" ELSE "__end__"

tool_node_none(msgs) == <<>>

\* ToolNode: one ToolMessage per tool call of the last message, which must be
\* an AI message
tool_node(msgs) == [k \in 1..Last(msgs).tool_calls |-> ToolMessage]

ToolsIdle ==
    /\ query = "" /\ disk = NoFile /\ png = NoPng /\ env = "ok"
    /\ ret = NoCall /\ last_tool = "none"

InitialMessages == {Human, Ai(0), Ai(1), ToolMessage}

InitGraph ==
    /\ node = "agent"
    /\ messages \in {m \in SeqsUpTo(InitialMessages, MaxInitMsgs) : m # <<>>}
    /\ ToolsIdle
    /\ AppIdle

\* the agent node: the model's answer is appended; the edge leads to tools
AgentNode ==
    /\ node = "agent"
    /\ \E k \in 0..MaxCalls : messages' = Append(messages, Ai(k))
    /\ node' = "tools"
    /\ UNCHANGED <<tool_vars, app_vars>>

\* the tools node, then the conditional edge
ToolsNode ==
    /\ node = "tools"
    /\ IF Last(messages).type = "ai"
       THEN /\ messages' = messages \o tool_node(messages)
            /\ node' = should_continue(messages')
       ELSE /\ messages' = messages
            /\ node' = "raised"
    /\ UNCHANGED <<tool_vars, app_vars>>

NextGraph == AgentNode \/ ToolsNode

SpecGraph == InitGraph /\ [][NextGraph]_vars

\* a compiled graph runs its nodes until the end is reached
LiveGraph == SpecGraph /\ WF_vars(NextGraph)

\* C7: a run starts at the agent node; the agent node hands over to the tools
\* node; after the tools node the run goes on exactly when the last message
\* carries pending tool calls and ends otherwise, which is the whole of the
\* routing decision, for every last message
C7_Routing ==
    /\ node = "agent"
    /\ \A m \in InitialMessages \cup {Ai(k) : k \in 0..MaxCalls} :
          should_continue(<<Human, m>>) = IF m.type = "ai" /\ m.tool_calls > 0
                                          THEN "tools" ELSE "__end__"
    /\ [][/\ node = "agent" => node' = "tools"
          /\ node = "tools" =>
                node' = IF messages'[Len(messages')].type = "ai"
                           /\ messages'[Len(messages')].tool_calls > 0
                        THEN "tools" ELSE "__end__"]_vars

\* a run ended after the tools node answered the model's tool calls
C7_Witness ==
    /\ node = "__end__"
    /\ Len(messages) >= 3
    /\ messages[Len(messages)].type = "tool"
    /\ messages[Len(messages) - 1].type = "ai"

\* C8: every run reaches the end, whatever the model returns
C8_Terminates == <>(node = "__end__")

\* runs that ended: the model returned tool calls, or none
C8_Witness ==
    /\ node = "__end__"
    /\ \E i \in DOMAIN messages : messages[i].type = "ai" /\ messages[i].tool_calls = MaxCalls
    /\ MaxCalls > 0


(***************************************************************************)
(* app.py: one script run per user event.                                  *)
(* tmp_files holds the temporary CSV files on disk, each named by the run  *)
(* that created it; shown is what the run displayed.                       *)
(***************************************************************************)
Upload(id, kind, utf8, cols) == [kind |-> kind, utf8 |-> utf8, cols |-> cols, id |-> id]
UploadRows == 2
Uploads ==
    {Upload(1, "table", TRUE,
            <<NumCol("Outlet_Establishment_Year", Cells(UploadRows, LAMBDA i : Val(1985 + i)), Val(-450)),
              NumCol("Item_Outlet_Sales", Cells(UploadRows, LAMBDA i : Val(10 * i)), Missing)>>),
     Upload(2, "table", TRUE,
            <<NumCol("Item_MRP", Cells(UploadRows, LAMBDA i : Val(i)), Val(570)),
              NumCol("Item_Outlet_Sales", Cells(UploadRows, LAMBDA i : Val(10 * i)), Missing)>>),
     Upload(3, "zero", TRUE, <<>>),
     Upload(4, "table", FALSE,
            <<NumCol("Outlet_Establishment_Year", Cells(UploadRows, LAMBDA i : Val(1985 + i)), Val(-450)),
              NumCol("Item_Outlet_Sales", Cells(UploadRows, LAMBDA i : Val(10 * i)), Missing)>>),
     Upload(5, "table", TRUE, <<NumCol("Item_Outlet_Sales", <<>>, Missing)>>)}

NothingShown == [page |-> "welcome"]

\* df = pd.read_csv(tmp_file_path): the preview, read as utf-8
preview(u) == read_csv(u, "utf-8")

\* the three button handlers, in order; the image shown by the trend handler
\* is sales_trend.png as it is on disk after the call of plot_trend
handle_buttons(u, outliers, correlation, trend, e, old_png) ==
    LET p == plot_trend("tmp.csv", u, e, old_png) IN
    [outliers |-> IF outliers THEN find_outliers("tmp.csv", u).text ELSE NoText,
     correlation |-> IF correlation THEN correlation_analysis("tmp.csv", u).text ELSE NoText,
     trend |-> IF trend THEN p.out.text ELSE NoText,
     image |-> IF trend THEN p.png ELSE NoPng,
     png |-> IF trend THEN p.png ELSE old_png]

\* the run's temporary file is removed by os.unlink at the end of the try
\* block, which a run that raised before it does not reach
unlink_at_end(files, created, raised) ==
    IF raised THEN files \cup {created} ELSE files

\* the script from line 151 on, with the file uploaded and the buttons pressed
script_run(u, outliers, correlation, trend, e) ==
    /\ runs' = runs + 1
    /\ env' = e
    /\ IF u = NoFile
       THEN /\ shown' = NothingShown
            /\ UNCHANGED <<tmp_files, png>>
       ELSE LET created == runs + 1
                df == preview(u)
            IN  IF df.raised
                THEN /\ shown' = [page |-> "error", exc |-> df.exc]
                     /\ tmp_files' = unlink_at_end(tmp_files, created, TRUE)
                     /\ png' = png
                ELSE LET h == handle_buttons(u, outliers, correlation, trend, e, png) IN
                     /\ shown' = [page |-> "analysis", rows |-> len_df(df.df),
                                  outliers |-> h.outliers, correlation |-> h.correlation,
                                  trend |-> h.trend, image |-> h.image]
                     /\ tmp_files' = unlink_at_end(tmp_files, created, FALSE)
                     /\ png' = h.png
    /\ UNCHANGED <<query, disk, ret, last_tool, graph_vars>>

InitApp ==
    /\ dark_mode = FALSE
    /\ uploaded = NoFile
    /\ tmp_files = {}
    /\ shown = NothingShown
    /\ runs = 0
    /\ query = "" /\ disk = NoFile /\ env = "ok" /\ ret = NoCall /\ last_tool = "none"
    /\ png \in {NoPng, Png(0)}
    /\ GraphIdle

\* the user picks a file in the uploader
UploadFile ==
    /\ runs < MaxRuns
    /\ \E u \in Uploads :
          /\ uploaded' = u
          /\ script_run(u, FALSE, FALSE, FALSE, env)
    /\ UNCHANGED dark_mode

\* the user removes the file from the uploader
RemoveFile ==
    /\ runs < MaxRuns
    /\ uploaded # NoFile
    /\ uploaded' = NoFile
    /\ script_run(NoFile, FALSE, FALSE, FALSE, env)
    /\ UNCHANGED dark_mode

\* the theme button: dark_mode is flipped and st.rerun() runs the script again
ToggleTheme ==
    /\ runs < MaxRuns
    /\ dark_mode' = ~dark_mode
    /\ script_run(uploaded, FALSE, FALSE, FALSE, env)
    /\ UNCHANGED uploaded

\* analysis buttons, which the page shows once the preview has loaded
ClickButtons ==
    /\ runs < MaxRuns
    /\ uploaded # NoFile
    /\ shown.page = "analysis"
    /\ \E outliers, correlation, trend \in BOOLEAN, e \in PlotEnvs :
          /\ outliers \/ correlation \/ trend
          /\ script_run(uploaded, outliers, correlation, trend, e)
    /\ UNCHANGED <<dark_mode, uploaded>>

NextApp == UploadFile \/ RemoveFile \/ ToggleTheme \/ ClickButtons

SpecApp == InitApp /\ [][NextApp]_vars

\* C10: after any sequence of script runs no temporary CSV file is left on
\* disk: every run has deleted the file it created
C10_NoTempFileLeft == tmp_files = {}

\* C11: whenever the trend handler displays an image, plot_trend of that run
\* returned success and the image is the chart it wrote for the file that is
\* uploaded now; no image is displayed next to an error of plot_trend, and
\* none that an earlier call or an earlier file left on disk
C11_ImageFromThisRun ==
    (shown.page = "analysis" /\ shown.trend # NoText /\ shown.image # NoPng)
        => /\ shown.trend.msg = "chart_saved"
           /\ shown.image = Png(uploaded.id)

\* C12: on every table that reads as non-empty, the column plot_trend selects
\* and the column find_outliers and correlation_analysis select are the same
\* one: the first column, in column order, whose name contains 'sales'
C12_SameSalesColumn ==
    (~invalid_query(query) /\ disk.kind = "table" /\ len_df(disk.cols) > 0)
        => /\ last_tool = "plot_trend"
                => plot_sales_col(disk.cols) = SalesIdx(disk)
           /\ last_tool \in {"find_outliers", "correlation_analysis"}
                => find_sales_col(disk.cols) = SalesIdx(disk)


====
